---- MODULE Spec2Model ----
(***************************************************************************)
(* Model of the rag-chatbot repository: the dual-backend FeedbackManager   *)
(* (feedback_manager.py), the ChromaDB vector store client                 *)
(* (chromadb_client.py) and the RAG orchestrator (rag.py).                 *)
(*                                                                         *)
(* Conventions                                                             *)
(*  - A datetime is a record [sec, frac]; its isoformat() string is the    *)
(*    pair <<sec, frac>>, compared lexicographically like the ISO text.    *)
(*    SQLite's datetime(text) keeps whole seconds only.                    *)
(*  - Rounded statistics are integers in tenths (33.3 is 333).             *)
(*  - A call's outcome is a record [kind |-> "return" | "raise", ...].     *)
(***************************************************************************)
EXTENDS Integers, Sequences, FiniteSets, TLC

VARIABLES
    jsonExists,     \* json_path.exists()
    jsonFile,       \* the list stored in the JSON file (<<>> when absent)
    table,          \* rows of the SQLite table "feedback", in rowid order
    mgrs,           \* backends for which a FeedbackManager has been constructed
    ret,            \* the last FeedbackManager call, what it returned and wrote
    nAdds,          \* number of add_feedback calls made so far
    collection,     \* the ChromaDB collection: document id -> [document, metadata]
    pc,             \* where the process_query turn in progress stands
    pq,             \* locals of the process_query turn: user_query as passed,
                    \* query (stripped), top_k, relevant_docs, context
    trace,          \* calls the current process_query turn made to its clients,
                    \* with the prompt generate_response sent to the model
    ragRet,         \* the last vector store / orchestrator call and its outcome
    nStores,        \* number of store_vector calls made so far
    procs,          \* concurrent add_feedback calls: position and locals of each
    session,        \* the chat session's message list (st.session_state.messages)
    chroma          \* the collection in the database: whether it exists, and
                    \* where the clear_collection call in progress stands

fbVars == <<jsonExists, jsonFile, table, mgrs, ret, nAdds>>

ragVars == <<collection, pc, pq, trace, ragRet, nStores>>

auxVars == <<procs, session, chroma>>

vars == <<fbVars, ragVars, auxVars>>

----------------------------------------------------------------------------
(* Bounds *)

MaxAdds == 2
MaxStores == 2

----------------------------------------------------------------------------
(* Input domains *)

Backends == {"sqlite", "json"}

MessageIds == {"m1"}
UserQueries == {"Q"}
Responses == {"RR"}
Feedbacks == {"positive", "negative", "neutral"}
\* Datetimes passed as timestamp (or read from the clock when it is None):
\* two instants of the same second; the legacy entries below add an
\* instant of a later second.
Datetimes == {[sec |-> 1, frac |-> 0], [sec |-> 1, frac |-> 5]}

\* datetime.now(): one reading of the clock; no operation compares it
NowValues == {[sec |-> 1, frac |-> 0]}

ValidFeedback == {"positive", "negative"}

None == "None"

----------------------------------------------------------------------------
(* Generic helpers *)

Get(e, k, d) == IF k \in DOMAIN e THEN e[k] ELSE d

RECURSIVE SumSeq(_)
SumSeq(s) == IF s = <<>> THEN 0 ELSE Head(s) + SumSeq(Tail(s))

Column(s, k) == [i \in 1..Len(s) |-> Get(s[i], k, 0)]

\* len([f for f in data if f.get("feedback") == fb]) / COUNT(1) ... WHERE feedback=fb
RECURSIVE CountFeedback(_, _)
CountFeedback(s, fb) ==
    IF s = <<>> THEN 0
    ELSE (IF Head(s).feedback = fb THEN 1 ELSE 0) + CountFeedback(Tail(s), fb)

\* RoundTenths that drops the digits after the first decimal
RoundTenths_truncate(num, den) == (10 * num) \div den

\* Python round(num/den, 1) in tenths: nearest tenth, an exact tie going to
\* the even tenth (every tie within the bounds is a dyadic fraction, which a
\* double holds exactly).
RoundTenths(num, den) ==
    LET q == (10 * num) \div den
        r == (10 * num) % den
    IN  IF 2 * r < den THEN q
        ELSE IF 2 * r > den THEN q + 1
        ELSE IF q % 2 = 0 THEN q ELSE q + 1

\* datetime.isoformat(): the ISO-8601 text, as the pair it orders by.
isoformat(dt) == <<dt.sec, dt.frac>>

\* Lexicographic order of two isoformat strings.
IsoLess(a, b) == a[1] < b[1] \/ (a[1] = b[1] /\ a[2] < b[2])

\* SQLite datetime(text): 'YYYY-MM-DD HH:MM:SS', the fraction is dropped.
SqlDatetime(iso) == iso[1]

\* sorted(data, key=lambda x: x.get("timestamp", ""), reverse=True):
\* a stable sort, entries with equal keys keep their order in data.
RECURSIVE InsertDesc(_, _)
InsertDesc(x, s) ==
    IF s = <<>> THEN <<x>>
    ELSE IF IsoLess(Head(s).timestamp, x.timestamp)
         THEN <<x>> \o s
         ELSE <<Head(s)>> \o InsertDesc(x, Tail(s))

RECURSIVE SortedDesc(_)
SortedDesc(s) ==
    IF s = <<>> THEN <<>>
    ELSE InsertDesc(s[Len(s)], SortedDesc(SubSeq(s, 1, Len(s) - 1)))

\* data[:limit] for limit >= 0
Take(s, limit) == SubSeq(s, 1, IF limit < Len(s) THEN limit ELSE Len(s))

\* SELECT ... ORDER BY datetime(timestamp) ASC|DESC: every ordering of the
\* rows that is sorted by the key; SQL leaves the order of rows with equal
\* keys to the engine.  SortedOrders builds the orderings of the rows at the
\* indices in S, first row first.
RECURSIVE SortedOrders(_, _, _)
SortedOrders(rows, S, desc) ==
    IF S = {} THEN {<<>>}
    ELSE LET key(i) == SqlDatetime(rows[i].timestamp)
             first == {i \in S : \A j \in S :
                          IF desc THEN key(i) >= key(j) ELSE key(i) <= key(j)}
         IN  UNION { { <<rows[i]>> \o rest : rest \in SortedOrders(rows, S \ {i}, desc) }
                     : i \in first }

SqlOrderBy(rows, desc) == SortedOrders(rows, 1..Len(rows), desc)

----------------------------------------------------------------------------
(* FeedbackManager: backend selection and storage primitives *)

\* os.getenv("FEEDBACK_BACKEND", "sqlite").strip().lower()
EnvValues == {None, "sqlite", "json", " JSON ", "postgres"}
backend_env(env) ==
    CASE env = None -> "sqlite"
      [] env = " JSON " -> "json"
      [] OTHER -> env

StorageBackendArgs == {None, "sqlite", "json"}

\* self.backend = (storage_backend or backend_env)
\*                if backend_env in {"sqlite", "json"} else "sqlite"
SelectBackend(storage_backend, env) ==
    IF backend_env(env) \in {"sqlite", "json"}
    THEN (IF storage_backend # None THEN storage_backend ELSE backend_env(env))
    ELSE "sqlite"

\* CHECK(feedback IN ('positive','negative')): a row is rejected only when
\* the expression is false; for NULL it is NULL and the row passes.
CheckConstraint(feedback) == feedback = None \/ feedback \in {"positive", "negative"}

\* _json_load(): the list in the file, [] when the file is absent
_json_load(exists, file) == IF exists THEN file ELSE <<>>

\* _table_is_empty that never sees a row
_table_is_empty_always(tbl) == TRUE

\* _table_is_empty()
_table_is_empty(tbl) == Len(tbl) = 0

\* The tuple _maybe_migrate_from_json builds for one legacy entry.
MigrateRow(entry, now) ==
    [message_id |-> Get(entry, "message_id", None),
     timestamp |-> Get(entry, "timestamp", isoformat(now)),
     user_query |-> Get(entry, "user_query", ""),
     response |-> Get(entry, "response", ""),
     feedback |-> Get(entry, "feedback", None),
     response_length |-> Get(entry, "response_length", Len(Get(entry, "response", ""))),
     query_length |-> Get(entry, "query_length", Len(Get(entry, "user_query", "")))]

\* _maybe_migrate_from_json that keeps the rows inserted before a rejected one
_maybe_migrate_from_json_no_rollback(exists, file, tbl, now) ==
    IF ~exists THEN tbl
    ELSE IF ~_table_is_empty(tbl) THEN tbl
    ELSE IF file = <<>> THEN tbl
    ELSE LET rows == [i \in 1..Len(file) |-> MigrateRow(file[i], now)]
             bad == {i \in 1..Len(rows) : ~CheckConstraint(rows[i].feedback)}
             first == IF bad = {} THEN Len(rows) + 1
                      ELSE CHOOSE i \in bad : \A j \in bad : i <= j
         IN  tbl \o SubSeq(rows, 1, first - 1)

\* _maybe_migrate_from_json(): the table after the call.  executemany runs
\* in one transaction, so a row the CHECK constraint rejects rolls back all.
_maybe_migrate_from_json(exists, file, tbl, now) ==
    IF ~exists THEN tbl
    ELSE IF ~_table_is_empty(tbl) THEN tbl
    ELSE IF file = <<>> THEN tbl
    ELSE LET rows == [i \in 1..Len(file) |-> MigrateRow(file[i], now)]
         IN  IF \A i \in 1..Len(rows) : CheckConstraint(rows[i].feedback)
             THEN tbl \o rows
             ELSE tbl

\* The entry add_feedback builds from its arguments (both backends).
NewEntry(message_id, user_query, response, feedback, timestamp) ==
    [message_id |-> message_id,
     timestamp |-> isoformat(timestamp),
     user_query |-> user_query,
     response |-> response,
     feedback |-> feedback,
     response_length |-> Len(response),
     query_length |-> Len(user_query)]

\* add_feedback, SQLite branch: the INSERT, False when it raises.
add_feedback_sqlite(tbl, entry) ==
    IF CheckConstraint(entry.feedback)
    THEN [ok |-> TRUE, store |-> Append(tbl, entry)]
    ELSE [ok |-> FALSE, store |-> tbl]

\* add_feedback on JSON that saves the new entry without the loaded ones
add_feedback_json_overwrite(exists, file, entry) ==
    [ok |-> TRUE, store |-> <<entry>>]

\* add_feedback, JSON branch: load, append, save.
add_feedback_json(exists, file, entry) ==
    [ok |-> TRUE, store |-> Append(_json_load(exists, file), entry)]

EmptyStats ==
    [total_feedback |-> 0, positive_feedback |-> 0, negative_feedback |-> 0,
     satisfaction_rate |-> 0, average_response_length |-> 0,
     average_query_length |-> 0]

\* get_feedback_stats(): both branches compute the same figures from the
\* rows (SQL COUNT/AVG) or the loaded list (len/sum).
get_feedback_stats(data) ==
    IF Len(data) = 0 THEN EmptyStats
    ELSE LET total == Len(data)
             pos == CountFeedback(data, "positive")
             neg == CountFeedback(data, "negative")
         IN  [total_feedback |-> total,
              positive_feedback |-> pos,
              negative_feedback |-> neg,
              satisfaction_rate |->
                  IF pos + neg > 0 THEN RoundTenths(100 * pos, pos + neg) ELSE 0,
              average_response_length |->
                  RoundTenths(SumSeq(Column(data, "response_length")), total),
              average_query_length |->
                  RoundTenths(SumSeq(Column(data, "query_length")), total)]

\* get_recent_feedback(limit): the lists the call can return.
get_recent_feedback_sqlite(tbl, limit) == { Take(s, limit) : s \in SqlOrderBy(tbl, TRUE) }
get_recent_feedback_json(exists, file, limit) ==
    { Take(SortedDesc(_json_load(exists, file)), limit) }

\* export_feedback: the data lists the call can write.
export_data_sqlite(tbl) == SqlOrderBy(tbl, FALSE)
export_data_json(exists, file) == { _json_load(exists, file) }

ExportFileOf(data, now) ==
    [export_timestamp |-> isoformat(now),
     total_entries |-> Len(data),
     feedback_data |-> data]

\* The persisted entries of a backend.
Store(b) == IF b = "sqlite" THEN table ELSE _json_load(jsonExists, jsonFile)

----------------------------------------------------------------------------
(* Legacy flat files that may be present before any manager is constructed *)

LegacyNoLengths ==
    [message_id |-> "m0", timestamp |-> <<1, 5>>, user_query |-> "Q",
     response |-> "RR", feedback |-> "positive"]

LegacyWithLengths ==
    [message_id |-> "m0", timestamp |-> <<2, 0>>, user_query |-> "Q",
     response |-> "RR", feedback |-> "negative",
     response_length |-> 7, query_length |-> 4]

\* [exists, file] pairs drawn for the initial file system
LegacyFiles ==
    { [exists |-> FALSE, file |-> <<>>],
      [exists |-> TRUE, file |-> <<>>],
      [exists |-> TRUE, file |-> <<LegacyNoLengths>>],
      [exists |-> TRUE, file |-> <<LegacyWithLengths, LegacyNoLengths>>] }

RecentLimits == {0, 1, 10}

----------------------------------------------------------------------------
(* FeedbackManager operations *)

\* FeedbackManager.__init__(storage_backend) under environment value env:
\* what it does to the stores
FmInitStores(storage_backend, env, now) ==
    LET b == SelectBackend(storage_backend, env) IN
    /\ mgrs' = mgrs \cup {b}
    /\ IF b = "sqlite"
       THEN /\ table' = _maybe_migrate_from_json(jsonExists, jsonFile, table, now)
            /\ UNCHANGED <<jsonExists, jsonFile>>
       ELSE /\ jsonExists' = TRUE
            /\ jsonFile' = _json_load(jsonExists, jsonFile)
            /\ UNCHANGED table
    /\ UNCHANGED nAdds

\* FeedbackManager.__init__, the call recorded by the backend it selected
FmInit(storage_backend, env, now) ==
    /\ FmInitStores(storage_backend, env, now)
    /\ ret' = [op |-> "__init__", backend |-> SelectBackend(storage_backend, env)]

\* FeedbackManager.__init__, the call recorded with its argument and the
\* environment value it ran under
FmInitWithArgs(storage_backend, env, now) ==
    /\ FmInitStores(storage_backend, env, now)
    /\ ret' = [op |-> "__init__", backend |-> SelectBackend(storage_backend, env),
               storage_backend |-> storage_backend, env |-> env]

\* add_feedback(message_id, user_query, response, feedback, timestamp);
\* timestamp=None takes datetime.now(), one of the same datetimes
AddFeedback(b, message_id, user_query, response, feedback, timestamp) ==
    LET entry == NewEntry(message_id, user_query, response, feedback, timestamp) IN
    /\ b \in mgrs
    /\ nAdds < MaxAdds
    /\ nAdds' = nAdds + 1
    /\ IF b = "sqlite"
       THEN LET r == add_feedback_sqlite(table, entry) IN
            /\ table' = r.store
            /\ ret' = [op |-> "add_feedback", backend |-> b,
                       feedback |-> feedback, value |-> r.ok]
            /\ UNCHANGED <<jsonExists, jsonFile>>
       ELSE LET r == add_feedback_json(jsonExists, jsonFile, entry) IN
            /\ jsonExists' = TRUE
            /\ jsonFile' = r.store
            /\ ret' = [op |-> "add_feedback", backend |-> b,
                       feedback |-> feedback, value |-> r.ok]
            /\ UNCHANGED table
    /\ UNCHANGED mgrs

\* clear_feedback()
ClearFeedback(b) ==
    /\ b \in mgrs
    /\ IF b = "sqlite"
       THEN /\ table' = <<>>
            /\ UNCHANGED <<jsonExists, jsonFile>>
       ELSE /\ jsonExists' = TRUE
            /\ jsonFile' = <<>>
            /\ UNCHANGED table
    /\ ret' = [op |-> "clear_feedback", backend |-> b, value |-> TRUE]
    /\ UNCHANGED <<mgrs, nAdds>>

\* get_feedback_stats()
GetFeedbackStats(b) ==
    /\ b \in mgrs
    /\ ret' = [op |-> "get_feedback_stats", backend |-> b,
               value |-> get_feedback_stats(Store(b))]
    /\ UNCHANGED <<jsonExists, jsonFile, table, mgrs, nAdds>>

\* get_recent_feedback(limit)
GetRecentFeedback(b, limit) ==
    /\ b \in mgrs
    /\ \E rows \in (IF b = "sqlite"
                    THEN get_recent_feedback_sqlite(table, limit)
                    ELSE get_recent_feedback_json(jsonExists, jsonFile, limit)) :
          ret' = [op |-> "get_recent_feedback", backend |-> b,
                  limit |-> limit, value |-> rows]
    /\ UNCHANGED <<jsonExists, jsonFile, table, mgrs, nAdds>>

\* export_feedback(export_file): the file written is kept with the result
ExportFeedback(b, now) ==
    /\ b \in mgrs
    /\ \E data \in (IF b = "sqlite"
                    THEN export_data_sqlite(table)
                    ELSE export_data_json(jsonExists, jsonFile)) :
          ret' = [op |-> "export_feedback", backend |-> b,
                  written |-> ExportFileOf(data, now), value |-> TRUE]
    /\ UNCHANGED <<jsonExists, jsonFile, table, mgrs, nAdds>>

----------------------------------------------------------------------------
(* Call outcomes and text helpers *)

Return(v) == [kind |-> "return", value |-> v]
Raise(m) == [kind |-> "raise", exc |-> "RuntimeError", msg |-> m]

\* str.strip() on the texts of the model
strip(text) ==
    CASE text = "  " -> ""
      [] text = " sky? " -> "sky?"
      [] text = " sky " -> "sky"
      [] text = " " -> ""
      [] text = " It is blue. " -> "It is blue."
      [] OTHER -> text

\* a blank test that lets whitespace-only text through
IsBlank_empty_only(text) == text = ""

\* not text or not text.strip()
IsBlank(text) == text = "" \/ strip(text) = ""

----------------------------------------------------------------------------
(* ChromaDBClient *)

\* What the external services do during one call: nothing wrong, the
\* embedding model fails, the storage layer fails.  A call on a collection
\* that has been deleted meets the fault "missing".
Faults == {"none", "embedding", "backend"}

\* Caller's metadata argument: None, or a dict object
NoMetadata == [none |-> TRUE]
Dict(d) == [none |-> FALSE, dict |-> d]
MetadataArgs == {NoMetadata, Dict([filename |-> "a.txt"])}

DocTexts == {"", "  ", "sky", "fog", "sea"}

\* hashlib.md5(text.encode()).hexdigest(): a function of the text alone
_generate_document_id(text) == <<"md5", text>>

\* metadata.update({"text_length": len(text), "stored_at": str(uuid.uuid4())})
MetadataUpdate(d, text, uuid) ==
    [k \in DOMAIN d \cup {"text_length", "stored_at"} |->
        IF k = "text_length" THEN Len(text)
        ELSE IF k = "stored_at" THEN uuid
        ELSE d[k]]

\* collection.add(embeddings, documents, metadatas, ids) of one record:
\* Chroma's add inserts new ids only, a record whose id is already in the
\* collection is left as it is (no error, no overwrite).
CollectionAdd(coll, doc_id, text, md) ==
    IF doc_id \in DOMAIN coll THEN coll
    ELSE [k \in DOMAIN coll \cup {doc_id} |->
            IF k = doc_id THEN [document |-> text, metadata |-> md] ELSE coll[k]]

\* store_vector(text, metadata): its outcome, the collection afterwards,
\* the caller's metadata object afterwards (update() mutates the dict passed)
\* and whether _generate_embedding was called.  Every exception raised in
\* the body, the ValueError of the validation included, is caught by
\* `except Exception` and re-raised as RuntimeError("Failed to store
\* document: ...").
store_vector(coll, text, metadata, uuid, fault) ==
    IF IsBlank(text)
    THEN [out |-> Raise("Failed to store document: Text cannot be empty"),
          coll |-> coll, metadata |-> metadata, embedded |-> FALSE]
    ELSE IF fault = "embedding"
    THEN [out |-> Raise("Failed to store document: Failed to generate embedding"),
          coll |-> coll, metadata |-> metadata, embedded |-> TRUE]
    ELSE LET doc_id == _generate_document_id(text)
             md == MetadataUpdate(IF metadata.none THEN <<>> ELSE metadata.dict, text, uuid)
             after == IF metadata.none THEN metadata ELSE Dict(md)
         IN  IF fault = "backend"
             THEN [out |-> Raise("Failed to store document: storage error"),
                   coll |-> coll, metadata |-> after, embedded |-> TRUE]
             ELSE IF fault = "missing"
             THEN [out |-> Raise("Failed to store document: Collection does not exist"),
                   coll |-> coll, metadata |-> after, embedded |-> TRUE]
             ELSE [out |-> Return(doc_id),
                   coll |-> CollectionAdd(coll, doc_id, text, md),
                   metadata |-> after, embedded |-> TRUE]

\* collection.delete(ids=[doc_id]): removes the record with that id; an id
\* that is not in the collection is skipped without an error.
CollectionDelete(coll, doc_id) ==
    [k \in DOMAIN coll \ {doc_id} |-> coll[k]]

\* delete_document(doc_id): True unless collection.delete raises
delete_document(coll, doc_id, fault) ==
    IF fault = "backend"
    THEN [value |-> FALSE, coll |-> coll]
    ELSE [value |-> TRUE, coll |-> CollectionDelete(coll, doc_id)]

\* ids passed to delete_document
DocIds == {_generate_document_id("sky"), _generate_document_id("fog")}

\* Cosine distance between the embeddings of a query and a document, in
\* hundredths (the embedding model is deterministic).
Distance(query_text, document) ==
    CASE document = "sky" -> 20
      [] document = "fog" -> 70
      [] document = "sea" -> 75
      [] OTHER -> 100

\* collection.query(query_embeddings, n_results): the ids of the n_results
\* nearest records, nearest first
RECURSIVE NearestFirst(_, _, _)
NearestFirst(coll, ids, query_text) ==
    IF ids = {} THEN <<>>
    ELSE LET best == CHOOSE a \in ids : \A b \in ids :
                        Distance(query_text, coll[a].document)
                            <= Distance(query_text, coll[b].document)
         IN  <<best>> \o NearestFirst(coll, ids \ {best}, query_text)

CollectionQuery(coll, query_text, n_results) ==
    Take(NearestFirst(coll, DOMAIN coll, query_text), n_results)

\* retrieve_vector that pairs every document with the metadata of the first
retrieve_vector_first_metadata(coll, query_text, top_k, fault) ==
    IF IsBlank(query_text)
    THEN Raise("Failed to retrieve documents: Query text cannot be empty")
    ELSE IF fault = "embedding"
    THEN Raise("Failed to retrieve documents: Failed to generate embedding")
    ELSE IF fault = "backend"
    THEN Raise("Failed to retrieve documents: storage error")
    ELSE IF fault = "missing"
    THEN Raise("Failed to retrieve documents: Collection does not exist")
    ELSE IF top_k <= 0
    THEN Raise("Failed to retrieve documents: Number of requested results cannot be negative, or zero")
    ELSE LET ids == CollectionQuery(coll, query_text, top_k)
         IN  Return([i \in 1..Len(ids) |->
                       [document |-> coll[ids[i]].document,
                        metadata |-> coll[ids[1]].metadata,
                        distance |-> Distance(query_text, coll[ids[i]].document),
                        similarity |-> 100 - Distance(query_text, coll[ids[i]].document)]])

\* retrieve_vector(query_text, top_k)
retrieve_vector(coll, query_text, top_k, fault) ==
    IF IsBlank(query_text)
    THEN Raise("Failed to retrieve documents: Query text cannot be empty")
    ELSE IF fault = "embedding"
    THEN Raise("Failed to retrieve documents: Failed to generate embedding")
    ELSE IF fault = "backend"
    THEN Raise("Failed to retrieve documents: storage error")
    ELSE IF fault = "missing"
    THEN Raise("Failed to retrieve documents: Collection does not exist")
    ELSE IF top_k <= 0
    THEN Raise("Failed to retrieve documents: Number of requested results cannot be negative, or zero")
    ELSE LET ids == CollectionQuery(coll, query_text, top_k)
         IN  Return([i \in 1..Len(ids) |->
                       [document |-> coll[ids[i]].document,
                        metadata |-> coll[ids[i]].metadata,
                        distance |-> Distance(query_text, coll[ids[i]].document),
                        similarity |-> 100 - Distance(query_text, coll[ids[i]].document)]])

----------------------------------------------------------------------------
(* OllamaClient *)

\* What ollama.generate does: a response text, or one of the errors
LlmOutcomes ==
    { [kind |-> "response", text |-> "It is blue."],
      [kind |-> "response", text |-> " It is blue. "],
      [kind |-> "response", text |-> "Answer: It is blue."],
      [kind |-> "response", text |-> "Context: sky\n\nIt is blue."],
      [kind |-> "response", text |-> "  "],
      [kind |-> "invalid"],
      [kind |-> "ResponseError"],
      [kind |-> "RequestError"] }

\* `if context:` that takes a sentinel sentence for no context
ContextGiven_unless_sentinel(context) == context.kind # "sentinel"

\* `if context:` -- a non-empty string
ContextGiven(context) ==
    IF context.kind = "sentinel" THEN context.text # "" ELSE context.parts # <<>>

\* full_prompt of generate_response
FullPrompt(prompt, context) ==
    IF ContextGiven(context)
    THEN <<"Context: ", context, "\n\nQuestion: ", prompt, "\n\nAnswer:">>
    ELSE <<prompt>>

\* generate_response(prompt, context) when ollama.generate behaves as llm
generate_response(prompt, context, llm) ==
    CASE llm.kind = "response" -> Return(strip(llm.text))
      [] llm.kind = "invalid" ->
            Raise("Failed to generate response: Invalid response format from Ollama")
      [] llm.kind = "ResponseError" -> Raise("Ollama response error: model not found")
      [] llm.kind = "RequestError" ->
            Raise("Failed to connect to Ollama server. Please ensure Ollama is running at http://localhost:11434")

----------------------------------------------------------------------------
(* RAGChatbot *)

PromptForInput == <<"Please provide a valid question or query.">>

Apology(msg) ==
    <<"I apologize, but I encountered an error while processing your query: ", msg,
      ". Please try again or check if the services are running properly.">>

EmptyResponseApology ==
    <<"I apologize, but I couldn't generate a proper response. Please try rephrasing your question.">>

\* process_query whose handler lets the exception through
process_query_except_reraise(msg) == Raise(msg)

\* `except Exception as e:` of process_query
process_query_except(msg) == Return(Apology(msg))

SimilarityThreshold == 30

\* _prepare_context that also keeps a result whose similarity equals the threshold
_prepare_context_inclusive(relevant_docs) ==
    IF relevant_docs = <<>>
    THEN [kind |-> "sentinel",
          text |-> "No relevant information found in the knowledge base."]
    ELSE LET kept == SelectSeq([i \in 1..Len(relevant_docs) |->
                                  [source |-> i,
                                   similarity |-> relevant_docs[i].similarity,
                                   document |-> relevant_docs[i].document]],
                               LAMBDA part : part.similarity >= SimilarityThreshold)
         IN  IF kept = <<>>
             THEN [kind |-> "sentinel",
                   text |-> "No highly relevant information found in the knowledge base."]
             ELSE [kind |-> "sources", parts |-> kept]

\* _prepare_context(relevant_docs)
_prepare_context(relevant_docs) ==
    IF relevant_docs = <<>>
    THEN [kind |-> "sentinel",
          text |-> "No relevant information found in the knowledge base."]
    ELSE LET kept == SelectSeq([i \in 1..Len(relevant_docs) |->
                                  [source |-> i,
                                   similarity |-> relevant_docs[i].similarity,
                                   document |-> relevant_docs[i].document]],
                               LAMBDA part : part.similarity > SimilarityThreshold)
         IN  IF kept = <<>>
             THEN [kind |-> "sentinel",
                   text |-> "No highly relevant information found in the knowledge base."]
             ELSE [kind |-> "sources", parts |-> kept]

\* re.sub(r"^Context:.*?\n\n", "", response, flags=re.DOTALL) followed by
\* re.sub(r"^Answer:\s*", "", response), on the texts of the model
RemoveMarkers(response) ==
    CASE response = "Context: sky\n\nIt is blue." -> "It is blue."
      [] response = "Answer: It is blue." -> "It is blue."
      [] OTHER -> response

\* _post_process_response(response)
_post_process_response(response) ==
    LET cleaned == RemoveMarkers(strip(response))
    IN  IF cleaned = "" THEN EmptyResponseApology ELSE <<cleaned>>

\* re.sub(r"\s+", " ", text) on the texts of the model
CollapseWhitespace(text) ==
    CASE text = "  " -> " "
      [] OTHER -> text

\* re.sub(r"[^\w\s\.\,\!\?\;\:\-\(\)]", "", text) on the texts of the model
RemoveSpecialCharacters(text) ==
    CASE text = "@@" -> ""
      [] text = "fog#" -> "fog"
      [] OTHER -> text

\* max_length of _preprocess_text
MaxTextLength == 10000

\* text[:max_length] + "...": the first max_length characters and an
\* ellipsis (no text of the model is that long)
Truncated(text) == "<first 10000 characters>..."

\* _preprocess_text(text)
_preprocess_text(text) ==
    LET cleaned == RemoveSpecialCharacters(CollapseWhitespace(text))
    IN  strip(IF Len(cleaned) > MaxTextLength THEN Truncated(cleaned) ELSE cleaned)

InformationTexts == {"", "@@", " sky ", "fog#"}

\* `except Exception as e: raise RuntimeError(f"Failed to store information: {e}")`
store_information_except(msg) ==
    CASE msg = "Failed to store document: Failed to generate embedding" ->
            Raise("Failed to store information: Failed to store document: Failed to generate embedding")
      [] msg = "Failed to store document: storage error" ->
            Raise("Failed to store information: Failed to store document: storage error")
      [] msg = "Failed to store document: Text cannot be empty" ->
            Raise("Failed to store information: Failed to store document: Text cannot be empty")
      [] msg = "Information cannot be empty" ->
            Raise("Failed to store information: Information cannot be empty")
      [] msg = "Information is empty after preprocessing" ->
            Raise("Failed to store information: Information is empty after preprocessing")

\* store_information that answers a failed store_vector with the id
store_information_swallow(coll, information, metadata, uuid, fault) ==
    IF IsBlank(information)
    THEN [out |-> store_information_except("Information cannot be empty"),
          coll |-> coll, metadata |-> metadata]
    ELSE LET cleaned_info == _preprocess_text(information)
             r == store_vector(coll, cleaned_info, metadata, uuid, fault)
         IN  IF cleaned_info = ""
             THEN [out |-> store_information_except("Information is empty after preprocessing"),
                   coll |-> coll, metadata |-> metadata]
             ELSE [out |-> Return(_generate_document_id(cleaned_info)),
                   coll |-> r.coll, metadata |-> r.metadata]

\* store_information(information, metadata): its outcome, the collection
\* afterwards and the caller's metadata object afterwards
store_information(coll, information, metadata, uuid, fault) ==
    IF IsBlank(information)
    THEN [out |-> store_information_except("Information cannot be empty"),
          coll |-> coll, metadata |-> metadata]
    ELSE LET cleaned_info == _preprocess_text(information)
             r == store_vector(coll, cleaned_info, metadata, uuid, fault)
         IN  IF cleaned_info = ""
             THEN [out |-> store_information_except("Information is empty after preprocessing"),
                   coll |-> coll, metadata |-> metadata]
             ELSE IF r.out.kind = "raise"
             THEN [out |-> store_information_except(r.out.msg),
                   coll |-> r.coll, metadata |-> r.metadata]
             ELSE [out |-> Return(r.out.value),
                   coll |-> r.coll, metadata |-> r.metadata]

UserQueryInputs == {"", "  ", "sky?", " sky? "}
TopKs == {0, 1, 3}

NoTurn == [user_query |-> "", query |-> "", top_k |-> 0, relevant_docs |-> <<>>,
           context |-> [kind |-> "unset"]]
NoRagCall == [op |-> "none", kind |-> "none"]

RagInit ==
    /\ collection = <<>>
    /\ pc = "idle"
    /\ pq = NoTurn
    /\ trace = <<>>
    /\ ragRet = NoRagCall
    /\ nStores = 0

\* ChromaDBClient.store_vector(text, metadata) as one call
StoreVector(text, metadata, fault) ==
    LET r == store_vector(collection, text, metadata, nStores + 1, fault) IN
    /\ nStores < MaxStores
    /\ nStores' = nStores + 1
    /\ collection' = r.coll
    /\ ragRet' = [op |-> "store_vector", text |-> text, given |-> metadata,
                  metadata |-> r.metadata, kind |-> r.out.kind,
                  exc |-> IF r.out.kind = "raise" THEN r.out.exc ELSE None,
                  embedded |-> r.embedded, fault |-> fault,
                  value |-> IF r.out.kind = "return" THEN r.out.value ELSE <<"raised", r.out.msg>>]
    /\ UNCHANGED <<pc, pq, trace>>

\* ChromaDBClient.delete_document(doc_id) as one call
DeleteDocument(doc_id, fault) ==
    LET r == delete_document(collection, doc_id, fault) IN
    /\ collection' = r.coll
    /\ ragRet' = [op |-> "delete_document", doc_id |-> doc_id, fault |-> fault,
                  kind |-> "return", value |-> r.value]
    /\ UNCHANGED <<pc, pq, trace, nStores>>

\* RAGChatbot.store_information(information, metadata) as one call
StoreInformation(information, metadata, fault) ==
    LET r == store_information(collection, information, metadata, nStores + 1, fault) IN
    /\ nStores < MaxStores
    /\ nStores' = nStores + 1
    /\ collection' = r.coll
    /\ ragRet' = [op |-> "store_information", text |-> information, given |-> metadata,
                  metadata |-> r.metadata, kind |-> r.out.kind,
                  exc |-> IF r.out.kind = "raise" THEN r.out.exc ELSE None,
                  fault |-> fault,
                  value |-> IF r.out.kind = "return" THEN r.out.value ELSE <<"raised", r.out.msg>>]
    /\ UNCHANGED <<pc, pq, trace>>

\* process_query(user_query, top_k), lines 46-51: validation
PQStart(user_query, top_k) ==
    /\ pc = "idle"
    /\ trace' = <<>>
    /\ IF IsBlank(user_query)
       THEN /\ ragRet' = [op |-> "process_query", user_query |-> user_query]
                              @@ Return(PromptForInput)
            /\ pq' = NoTurn
            /\ pc' = "idle"
       ELSE /\ ragRet' = [op |-> "process_query", user_query |-> user_query,
                          kind |-> "pending"]
            /\ pq' = [user_query |-> user_query, query |-> strip(user_query),
                      top_k |-> top_k, relevant_docs |-> <<>>,
                      context |-> [kind |-> "unset"]]
            /\ pc' = "retrieve"
    /\ UNCHANGED <<collection, nStores>>

\* retrieval step that answers a failed retrieval by generating without context
PQRetrieve_fallback(fault) ==
    LET r == retrieve_vector(collection, pq.query, pq.top_k, fault) IN
    /\ pc = "retrieve"
    /\ trace' = Append(trace, [call |-> "retrieve_vector", kind |-> r.kind,
                               msg |-> IF r.kind = "raise" THEN r.msg ELSE ""])
    /\ pq' = [pq EXCEPT !.relevant_docs = IF r.kind = "raise" THEN <<>> ELSE r.value,
                        !.context = _prepare_context(IF r.kind = "raise" THEN <<>> ELSE r.value)]
    /\ pc' = "generate"
    /\ UNCHANGED ragRet
    /\ UNCHANGED <<collection, nStores>>

\* process_query, lines 53-62: retrieval and context assembly
PQRetrieve(fault) ==
    LET r == retrieve_vector(collection, pq.query, pq.top_k, fault) IN
    /\ pc = "retrieve"
    /\ trace' = Append(trace, [call |-> "retrieve_vector", kind |-> r.kind,
                               msg |-> IF r.kind = "raise" THEN r.msg ELSE ""])
    /\ IF r.kind = "raise"
       THEN /\ ragRet' = [op |-> "process_query", user_query |-> pq.user_query]
                              @@ process_query_except(r.msg)
            /\ pq' = NoTurn
            /\ pc' = "idle"
       ELSE /\ pq' = [pq EXCEPT !.relevant_docs = r.value,
                                !.context = _prepare_context(r.value)]
            /\ pc' = "generate"
            /\ UNCHANGED ragRet
    /\ UNCHANGED <<collection, nStores>>

\* process_query, lines 64-72: generation and post-processing
PQGenerate(llm) ==
    LET r == generate_response(pq.query, pq.context, llm) IN
    /\ pc = "generate"
    /\ trace' = Append(trace, [call |-> "generate_response", kind |-> r.kind,
                               msg |-> IF r.kind = "raise" THEN r.msg ELSE "",
                               query |-> pq.query, context |-> pq.context,
                               prompt |-> FullPrompt(pq.query, pq.context)])
    /\ ragRet' = [op |-> "process_query", user_query |-> pq.user_query] @@
                    (IF r.kind = "raise"
                     THEN process_query_except(r.msg)
                     ELSE Return(_post_process_response(r.value)))
    /\ pq' = NoTurn
    /\ pc' = "idle"
    /\ UNCHANGED <<collection, nStores>>

----------------------------------------------------------------------------
(* Specification of the feedback store *)

\* No concurrent add_feedback call in progress, no chat session.
Procs == {"p1", "p2"}
NoEntry == [message_id |-> None]
NoProcs ==
    [p \in Procs |-> [pc |-> "idle", backend |-> "none", entry |-> NoEntry,
                      existing |-> <<>>, result |-> FALSE]]
\* get_or_create_collection in ChromaDBClient.__init__: the collection exists
ChromaIdle == [exists |-> TRUE, pc |-> "idle"]
AuxIdle ==
    /\ procs = NoProcs
    /\ session = <<>>
    /\ chroma = ChromaIdle

NoCall == [op |-> "none", backend |-> "none"]

Init ==
    /\ \E f \in LegacyFiles : jsonExists = f.exists /\ jsonFile = f.file
    /\ table = <<>>
    /\ mgrs = {}
    /\ ret = NoCall
    /\ nAdds = 0
    /\ RagInit
    /\ AuxIdle

DoFmInit ==
    /\ \E a \in StorageBackendArgs, env \in EnvValues, now \in NowValues : FmInit(a, env, now)
    /\ UNCHANGED <<ragVars, auxVars>>
DoAddFeedback ==
    /\ \E b \in Backends, m \in MessageIds, q \in UserQueries, r \in Responses,
          fb \in Feedbacks, ts \in Datetimes : AddFeedback(b, m, q, r, fb, ts)
    /\ UNCHANGED <<ragVars, auxVars>>
DoClearFeedback ==
    /\ \E b \in Backends : ClearFeedback(b)
    /\ UNCHANGED <<ragVars, auxVars>>
DoGetFeedbackStats ==
    /\ \E b \in Backends : GetFeedbackStats(b)
    /\ UNCHANGED <<ragVars, auxVars>>
DoGetRecentFeedback ==
    /\ \E b \in Backends, limit \in RecentLimits : GetRecentFeedback(b, limit)
    /\ UNCHANGED <<ragVars, auxVars>>
DoExportFeedback ==
    /\ \E b \in Backends, now \in NowValues : ExportFeedback(b, now)
    /\ UNCHANGED <<ragVars, auxVars>>
Next ==
    \/ DoFmInit
    \/ DoAddFeedback
    \/ DoClearFeedback
    \/ DoGetFeedbackStats
    \/ DoGetRecentFeedback
    \/ DoExportFeedback

Spec == Init /\ [][Next]_vars

----------------------------------------------------------------------------
(* Properties of the feedback store *)

IsPrefix(s, t) == Len(s) <= Len(t) /\ SubSeq(t, 1, Len(s)) = s

SqliteInitStep == ret'.op = "__init__" /\ ret'.backend = "sqlite"

\* C3: the legacy migration is one-shot: an initialization of the relational
\* backend that follows a clear_feedback of the relational store leaves the
\* store empty; legacy entries are not copied in a second time.
C3_MigrationOneShot ==
    [][(ret.op = "clear_feedback" /\ ret.backend = "sqlite" /\ SqliteInitStep)
          => table' = <<>>]_vars

\* C4: initializing the relational backend with a legacy file of K entries
\* and an empty table leaves exactly K rows, one per legacy entry and in its
\* order, each with the entry's timestamp and with the lengths of the entry
\* or, when it has none, the lengths of its response and user_query.
C4_MigrationCopiesAll ==
    [][(SqliteInitStep /\ jsonExists /\ table = <<>>)
          => /\ Len(table') = Len(jsonFile)
             /\ \A i \in 1..Len(jsonFile) :
                   /\ table'[i].timestamp = jsonFile[i].timestamp
                   /\ table'[i].response_length =
                         (IF "response_length" \in DOMAIN jsonFile[i]
                          THEN jsonFile[i].response_length
                          ELSE Len(jsonFile[i].response))
                   /\ table'[i].query_length =
                         (IF "query_length" \in DOMAIN jsonFile[i]
                          THEN jsonFile[i].query_length
                          ELSE Len(jsonFile[i].user_query))]_vars

C6_InvalidFeedbackRejected ==
    [][(ret'.op = "add_feedback" /\ ret'.feedback \notin ValidFeedback)
          => /\ ret'.value = FALSE
             /\ UNCHANGED <<table, jsonFile>>]_vars

C8_StatsCorrect ==
    ret.op = "get_feedback_stats" =>
        LET data == Store(ret.backend)
            N == Cardinality({i \in 1..Len(data) : data[i].feedback = "positive"})
            M == Cardinality({i \in 1..Len(data) : data[i].feedback = "negative"})
            st == ret.value
            err == 1000 * N - st.satisfaction_rate * (N + M)
        IN  /\ st.total_feedback = Len(data)
            /\ st.positive_feedback = N
            /\ st.negative_feedback = M
            /\ N + M = 0 => st.satisfaction_rate = 0
            /\ N + M > 0 => 2 * err <= N + M /\ -2 * err <= N + M
            /\ Len(data) = 0 => /\ st.average_response_length = 0
                                /\ st.average_query_length = 0

\* C8 witness: statistics were taken of a store with both positive and
\* negative entries whose rate is not a whole percentage.
C8_Witness ==
    /\ ret.op = "get_feedback_stats"
    /\ ret.value.positive_feedback > 0 /\ ret.value.negative_feedback > 0
    /\ ret.value.satisfaction_rate % 10 # 0

\* C10: export_feedback writes every persisted entry in ascending timestamp
\* order, with total_entries the number of entries written, on both backends.
C10_ExportAscending ==
    ret.op = "export_feedback" =>
        LET data == ret.written.feedback_data
            stored == Store(ret.backend)
        IN  /\ ret.written.total_entries = Len(data)
            /\ Len(data) = Len(stored)
            /\ \A i \in 1..Len(stored) : \E j \in 1..Len(data) : data[j] = stored[i]
            /\ \A i, j \in 1..Len(data) :
                  i < j => ~IsoLess(data[j].timestamp, data[i].timestamp)

\* C24: the legacy migration is all-or-nothing: an initialization of the
\* relational backend that starts from an empty table leaves the table
\* either empty or holding a row for every entry of the legacy file, in the
\* file's order, also when the feedback constraint rejects one entry.
C24_MigrationAllOrNothing ==
    [][(SqliteInitStep /\ table = <<>>)
          => \/ table' = <<>>
             \/ /\ jsonExists
                /\ Len(table') = Len(jsonFile)
                /\ \A i \in 1..Len(jsonFile) :
                      /\ table'[i].timestamp = jsonFile[i].timestamp
                      /\ table'[i].feedback = jsonFile[i].feedback
                      /\ table'[i].message_id = jsonFile[i].message_id]_vars

\* C24 witness: the relational backend was initialized on an empty table
\* next to a legacy file holding an entry the constraint accepts followed
\* by one it rejects, and the table is empty.
C24_Witness ==
    /\ ret.op = "__init__" /\ ret.backend = "sqlite"
    /\ table = <<>>
    /\ jsonExists
    /\ \E i, j \in 1..Len(jsonFile) :
          /\ i < j
          /\ jsonFile[i].feedback \in ValidFeedback
          /\ jsonFile[j].feedback \notin ValidFeedback

\* C26: in every reachable state of the store, on either backend,
\* get_feedback_stats reports total_feedback = positive_feedback +
\* negative_feedback.
C26_TotalIsPositivePlusNegative ==
    ret.op = "get_feedback_stats" =>
        ret.value.total_feedback =
            ret.value.positive_feedback + ret.value.negative_feedback

\* C11: get_recent_feedback(limit) returns at most limit entries, the ones
\* with the latest timestamps, ordered by the full ISO-8601 timestamp
\* descending (fractions of a second included), on both backends.
C11_RecentLatestFirst ==
    ret.op = "get_recent_feedback" =>
        LET rows == ret.value
            stored == Store(ret.backend)
            n == IF ret.limit < Len(stored) THEN ret.limit ELSE Len(stored)
        IN  /\ Len(rows) <= ret.limit
            /\ Len(rows) = n
            /\ \A i \in 1..Len(rows) : \E k \in 1..Len(stored) : stored[k] = rows[i]
            /\ \A i, j \in 1..Len(rows) :
                  i < j => ~IsoLess(rows[i].timestamp, rows[j].timestamp)
            /\ \A k \in 1..Len(stored) :
                  (n > 0 /\ IsoLess(rows[n].timestamp, stored[k].timestamp))
                      => \E i \in 1..n : rows[i] = stored[k]

----------------------------------------------------------------------------
(* Specification of the vector store and the orchestrator *)

FbIdle ==
    /\ jsonExists = FALSE
    /\ jsonFile = <<>>
    /\ table = <<>>
    /\ mgrs = {}
    /\ ret = NoCall
    /\ nAdds = 0

InitRAG == FbIdle /\ RagInit /\ AuxIdle

DoStoreVector ==
    /\ \E text \in DocTexts, metadata \in MetadataArgs, fault \in Faults :
          StoreVector(text, metadata, fault)
    /\ UNCHANGED <<fbVars, auxVars>>
DoStoreInformation ==
    /\ \E information \in InformationTexts, metadata \in MetadataArgs, fault \in Faults :
          StoreInformation(information, metadata, fault)
    /\ UNCHANGED <<fbVars, auxVars>>
DoDeleteDocument ==
    /\ \E doc_id \in DocIds, fault \in {"none", "backend"} : DeleteDocument(doc_id, fault)
    /\ UNCHANGED <<fbVars, auxVars>>
DoPQStart ==
    /\ \E user_query \in UserQueryInputs, top_k \in TopKs : PQStart(user_query, top_k)
    /\ UNCHANGED <<fbVars, auxVars>>
DoPQRetrieve ==
    /\ \E fault \in Faults : PQRetrieve(fault)
    /\ UNCHANGED <<fbVars, auxVars>>
DoPQGenerate ==
    /\ \E llm \in LlmOutcomes : PQGenerate(llm)
    /\ UNCHANGED <<fbVars, auxVars>>

NextRAG ==
    \/ DoStoreVector
    \/ DoStoreInformation
    \/ DoDeleteDocument
    \/ DoPQStart
    \/ DoPQRetrieve
    \/ DoPQGenerate

SpecRAG == InitRAG /\ [][NextRAG]_vars

----------------------------------------------------------------------------
(* Properties of the vector store and the orchestrator *)

\* C1: process_query never raises: a finished turn has returned a string,
\* and when retrieval or generation failed in the turn the string is the
\* apology carrying the message of that failure.
C1_ProcessQueryNeverRaises ==
    (ragRet.op = "process_query" /\ pc = "idle") =>
        /\ ragRet.kind = "return"
        /\ Len(ragRet.value) >= 1
        /\ \A i \in 1..Len(ragRet.value) : ragRet.value[i] \in STRING
        /\ \A i \in 1..Len(trace) :
              trace[i].kind = "raise" =>
                 /\ Len(ragRet.value) = 3
                 /\ ragRet.value[1] =
                       "I apologize, but I encountered an error while processing your query: "
                 /\ ragRet.value[2] = trace[i].msg

\* C1 witness: a turn ended after its generation call failed.
C1_Witness ==
    /\ ragRet.op = "process_query" /\ pc = "idle"
    /\ \E i \in 1..Len(trace) :
          trace[i].call = "generate_response" /\ trace[i].kind = "raise"

\* C2: storing a text that is already stored returns the id the text is
\* stored under, keeps one record for it, and leaves that record with the
\* metadata of this second call.
C2_RestoreOverwritesMetadata ==
    [][(/\ ragRet'.op = "store_vector" /\ nStores' = nStores + 1
        /\ ragRet'.kind = "return"
        /\ \E id \in DOMAIN collection : collection[id].document = ragRet'.text)
          => /\ ragRet'.value \in DOMAIN collection
             /\ collection[ragRet'.value].document = ragRet'.text
             /\ DOMAIN collection' = DOMAIN collection
             /\ LET stored == collection'[ragRet'.value].metadata
                    given == IF ragRet'.given.none THEN <<>> ELSE ragRet'.given.dict
                IN  /\ DOMAIN stored = DOMAIN given \cup {"text_length", "stored_at"}
                    /\ stored.stored_at = nStores'
                    /\ \A k \in DOMAIN given \ {"text_length", "stored_at"} :
                          stored[k] = given[k]]_vars

\* C13 as first stated: a retrieved result is in the context exactly when
\* its similarity is above 0.3, and whenever no result clears the threshold,
\* retrieval returning nothing included, the context is the one sentence
\* "No relevant information found in the knowledge base."
C13_SingleSentinel ==
    pc = "generate" =>
        LET docs == pq.relevant_docs
            Clears(i) == docs[i].similarity > 30
        IN  IF \E i \in 1..Len(docs) : Clears(i)
            THEN /\ pq.context.kind = "sources"
                 /\ \A i \in 1..Len(docs) :
                       Clears(i) <=> \E j \in 1..Len(pq.context.parts) :
                                        /\ pq.context.parts[j].source = i
                                        /\ pq.context.parts[j].document = docs[i].document
            ELSE /\ pq.context.kind = "sentinel"
                 /\ pq.context.text = "No relevant information found in the knowledge base."

\* C13: a retrieved result is in the context exactly when its similarity is
\* above 0.3; when retrieval returned nothing the context is the sentence
\* "No relevant information found in the knowledge base.", and when it
\* returned results none of which clears the threshold the context is the
\* sentence "No highly relevant information found in the knowledge base."
C13_ContextThreshold ==
    pc = "generate" =>
        LET docs == pq.relevant_docs
            Clears(i) == docs[i].similarity > 30
        IN  IF \E i \in 1..Len(docs) : Clears(i)
            THEN /\ pq.context.kind = "sources"
                 /\ \A i \in 1..Len(docs) :
                       Clears(i) <=> \E j \in 1..Len(pq.context.parts) :
                                        /\ pq.context.parts[j].source = i
                                        /\ pq.context.parts[j].document = docs[i].document
            ELSE /\ pq.context.kind = "sentinel"
                 /\ pq.context.text =
                       IF docs = <<>>
                       THEN "No relevant information found in the knowledge base."
                       ELSE "No highly relevant information found in the knowledge base."

\* C13 witness: retrieval returned a result above the threshold together
\* with one whose similarity is exactly 0.3, and the context has been built.
C13_Witness ==
    /\ pc = "generate"
    /\ \E i, j \in 1..Len(pq.relevant_docs) :
          /\ pq.relevant_docs[i].similarity > 30
          /\ pq.relevant_docs[j].similarity = 30
    /\ pq.context.kind = "sources"

\* C14 as first stated: process_query sends the model the combined
\* "Context: ... Question: ... Answer:" prompt only when the context is not
\* a sentinel sentence, and the bare query when it is one.
C14_BareQueryOnSentinel ==
    \A i \in 1..Len(trace) :
        trace[i].call = "generate_response" =>
            IF trace[i].context.kind = "sentinel"
            THEN Len(trace[i].prompt) = 1 /\ trace[i].prompt[1] = trace[i].query
            ELSE /\ Len(trace[i].prompt) = 5
                 /\ trace[i].prompt[1] = "Context: "
                 /\ trace[i].prompt[2] = trace[i].context

\* C14: process_query always sends the model the combined prompt
\* "Context: <context>\n\nQuestion: <query>\n\nAnswer:", the context being
\* the sources text or the sentinel sentence; it never sends the bare query.
C14_AlwaysCombinedPrompt ==
    \A i \in 1..Len(trace) :
        trace[i].call = "generate_response" =>
            /\ Len(trace[i].prompt) = 5
            /\ trace[i].prompt[1] = "Context: "
            /\ trace[i].prompt[2] = trace[i].context
            /\ trace[i].prompt[3] = "\n\nQuestion: "
            /\ trace[i].prompt[4] = trace[i].query
            /\ trace[i].prompt[5] = "\n\nAnswer:"

\* C14 witness: the model has been called in a turn whose context is a
\* sentinel sentence.
C14_Witness ==
    \E i \in 1..Len(trace) :
        /\ trace[i].call = "generate_response"
        /\ trace[i].context.kind = "sentinel"

\* C15: process_query with an empty or whitespace-only query returns the
\* fixed prompt-for-input string and calls neither retrieval nor generation.
C15_BlankQueryShortCircuits ==
    (ragRet.op = "process_query" /\ ragRet.user_query \in {"", "  "}) =>
        /\ pc = "idle"
        /\ ragRet.kind = "return"
        /\ ragRet.value = <<"Please provide a valid question or query.">>
        /\ trace = <<>>

\* C15 witness: a whitespace-only query has been answered.
C15_Witness ==
    /\ ragRet.op = "process_query"
    /\ ragRet.user_query = "  "
    /\ ragRet.kind = "return"

\* C16: store_vector with empty or whitespace-only text fails with the
\* validation error its docstring names, ValueError, without computing an
\* embedding, and leaves the collection as it was.
C16_BlankTextValueError ==
    [][(/\ ragRet'.op = "store_vector" /\ nStores' = nStores + 1
        /\ ragRet'.text \in {"", "  "})
          => /\ ragRet'.kind = "raise"
             /\ ragRet'.exc = "ValueError"
             /\ ~ragRet'.embedded
             /\ collection' = collection]_vars

\* C17: store_information raises when the text is empty, when it is empty
\* after preprocessing and when store_vector fails, and then nothing is
\* stored; when it returns an id the preprocessed text is stored under that
\* id and no other record has changed.
C17_StoreInformationSurfacesFailure ==
    [][(ragRet'.op = "store_information" /\ nStores' = nStores + 1)
          => LET text == ragRet'.text
                 expected == CASE text = " sky " -> "sky"
                               [] text = "fog#" -> "fog"
                               [] OTHER -> text
             IN  /\ (text \in {"", "  ", "@@"} \/ ragRet'.fault # "none")
                        => ragRet'.kind = "raise"
                 /\ ragRet'.kind = "raise" => collection' = collection
                 /\ ragRet'.kind = "return" =>
                       /\ ragRet'.value \in DOMAIN collection'
                       /\ collection'[ragRet'.value].document = expected
                       /\ \A id \in DOMAIN collection : collection'[id] = collection[id]]_vars

\* C17 witness: store_information raised because store_vector failed on a
\* text that is not empty after preprocessing.
C17_Witness ==
    /\ ragRet.op = "store_information"
    /\ ragRet.text = "fog#"
    /\ ragRet.fault = "backend"
    /\ ragRet.kind = "raise"

\* C18: delete_document of an id that is not in the collection returns
\* False and leaves the collection unchanged; of an id that is in the
\* collection it returns True and removes the record, so that a second
\* delete of the same id returns False.
C18_DeleteReportsAbsence ==
    [][(/\ ragRet'.op = "delete_document"
        /\ UNCHANGED <<pc, pq, trace, nStores>>
        /\ ragRet'.fault = "none")
          => IF ragRet'.doc_id \in DOMAIN collection
             THEN ragRet'.value = TRUE /\ ragRet'.doc_id \notin DOMAIN collection'
             ELSE ragRet'.value = FALSE /\ collection' = collection]_vars

\* C19: retrieve_vector returns at most top_k results, in non-decreasing
\* order of distance; each result is a document of the collection with the
\* metadata stored with that document and the distance of that document
\* from the query, and its similarity is 1 - distance.
C19_RetrieveOrderedAndPaired ==
    [][(pc = "retrieve" /\ pc' = "generate")
          => LET docs == pq'.relevant_docs
             IN  /\ Len(docs) <= pq.top_k
                 /\ \A i, j \in 1..Len(docs) :
                       i < j => /\ docs[i].distance <= docs[j].distance
                                /\ docs[i].document # docs[j].document
                 /\ \A i \in 1..Len(docs) :
                       /\ \E id \in DOMAIN collection :
                             /\ collection[id].document = docs[i].document
                             /\ collection[id].metadata = docs[i].metadata
                       /\ docs[i].distance = Distance(pq.query, docs[i].document)
                       /\ docs[i].similarity = 100 - docs[i].distance]_vars

\* C19 witness: retrieve_vector has returned two results.
C19_Witness ==
    /\ pc = "generate"
    /\ Len(pq.relevant_docs) = 2
    /\ pq.relevant_docs[1].metadata # pq.relevant_docs[2].metadata

\* C28: store_vector and store_information leave the metadata mapping the
\* caller passed in unchanged: after the call it has the keys and values it
\* had before.
C28_CallerMetadataUnchanged ==
    ragRet.op \in {"store_vector", "store_information"}
        => ragRet.metadata = ragRet.given

\* C22: within one process_query turn generation is called at most once and
\* only after retrieval has returned in that turn; when retrieval failed,
\* generation is not called and the turn ends with the apology string.
C22_RetrievalThenGeneration ==
    /\ \A i \in 1..Len(trace) :
          trace[i].call = "generate_response" =>
              /\ i = 2
              /\ trace[1].call = "retrieve_vector"
              /\ trace[1].kind = "return"
    /\ Len(trace) <= 2
    /\ pc = "generate" => (Len(trace) = 1 /\ trace[1].kind = "return")
    /\ (\E i \in 1..Len(trace) :
            trace[i].call = "retrieve_vector" /\ trace[i].kind = "raise")
          => /\ Len(trace) = 1
             /\ pc = "idle"
             /\ ragRet.op = "process_query" =>
                   /\ ragRet.kind = "return"
                   /\ Len(ragRet.value) = 3
                   /\ ragRet.value[1] =
                         "I apologize, but I encountered an error while processing your query: "
                   /\ ragRet.value[2] = trace[1].msg

\* C22 witness: a turn ended after its retrieval call failed.
C22_Witness ==
    /\ ragRet.op = "process_query" /\ pc = "idle"
    /\ Len(trace) = 1
    /\ trace[1].call = "retrieve_vector" /\ trace[1].kind = "raise"

----------------------------------------------------------------------------
(* Both feedback backends driven by the same calls *)

InitEquiv ==
    /\ jsonExists = TRUE
    /\ jsonFile = <<>>
    /\ table = <<>>
    /\ mgrs = Backends
    /\ ret = NoCall
    /\ nAdds = 0
    /\ RagInit
    /\ AuxIdle

\* the same add_feedback call on the SQLite and on the JSON manager
EqAddFeedback(message_id, user_query, response, feedback, timestamp) ==
    LET entry == NewEntry(message_id, user_query, response, feedback, timestamp)
        rs == add_feedback_sqlite(table, entry)
        rj == add_feedback_json(jsonExists, jsonFile, entry)
    IN  /\ nAdds < MaxAdds
        /\ nAdds' = nAdds + 1
        /\ table' = rs.store
        /\ jsonExists' = TRUE
        /\ jsonFile' = rj.store
        /\ ret' = [op |-> "add_feedback", backend |-> "both",
                   feedback |-> feedback, value |-> <<rs.ok, rj.ok>>]
        /\ UNCHANGED mgrs

\* clear_feedback on both managers
EqClearFeedback ==
    /\ table' = <<>>
    /\ jsonExists' = TRUE
    /\ jsonFile' = <<>>
    /\ ret' = [op |-> "clear_feedback", backend |-> "both", value |-> <<TRUE, TRUE>>]
    /\ UNCHANGED <<mgrs, nAdds>>

\* get_feedback_stats on both managers
EqGetFeedbackStats ==
    /\ ret' = [op |-> "get_feedback_stats", backend |-> "both",
               value |-> <<get_feedback_stats(table),
                           get_feedback_stats(_json_load(jsonExists, jsonFile))>>]
    /\ UNCHANGED <<jsonExists, jsonFile, table, mgrs, nAdds>>

\* get_recent_feedback(limit) on both managers
EqGetRecentFeedback(limit) ==
    /\ \E rs \in get_recent_feedback_sqlite(table, limit),
          rj \in get_recent_feedback_json(jsonExists, jsonFile, limit) :
          ret' = [op |-> "get_recent_feedback", backend |-> "both",
                  limit |-> limit, value |-> <<rs, rj>>]
    /\ UNCHANGED <<jsonExists, jsonFile, table, mgrs, nAdds>>

\* export_feedback on both managers: the feedback_data each one writes
EqExportFeedback(now) ==
    /\ \E ds \in export_data_sqlite(table),
          dj \in export_data_json(jsonExists, jsonFile) :
          ret' = [op |-> "export_feedback", backend |-> "both",
                  value |-> <<ExportFileOf(ds, now).feedback_data,
                              ExportFileOf(dj, now).feedback_data>>]
    /\ UNCHANGED <<jsonExists, jsonFile, table, mgrs, nAdds>>

DoEqAddFeedback ==
    /\ \E m \in MessageIds, q \in UserQueries, r \in Responses,
          fb \in Feedbacks, ts \in Datetimes : EqAddFeedback(m, q, r, fb, ts)
    /\ UNCHANGED <<ragVars, auxVars>>
DoEqClearFeedback ==
    /\ EqClearFeedback
    /\ UNCHANGED <<ragVars, auxVars>>

DoEqGetFeedbackStats ==
    /\ EqGetFeedbackStats
    /\ UNCHANGED <<ragVars, auxVars>>
DoEqGetRecentFeedback ==
    /\ \E limit \in RecentLimits : EqGetRecentFeedback(limit)
    /\ UNCHANGED <<ragVars, auxVars>>
DoEqExportFeedback ==
    /\ \E now \in NowValues : EqExportFeedback(now)
    /\ UNCHANGED <<ragVars, auxVars>>

NextEquiv ==
    \/ DoEqAddFeedback
    \/ DoEqClearFeedback
    \/ DoEqGetFeedbackStats
    \/ DoEqGetRecentFeedback
    \/ DoEqExportFeedback

SpecEquiv == InitEquiv /\ [][NextEquiv]_vars

\* C9: after the same sequence of add_feedback and clear_feedback calls on
\* two empty stores, every call made on both backends (add_feedback,
\* get_feedback_stats, get_recent_feedback, export_feedback) has given the
\* same result on the relational and on the flat-file backend.
C9_BackendsInterchangeable ==
    ret.backend = "both" => ret.value[1] = ret.value[2]

----------------------------------------------------------------------------
(* Specification of add_feedback calls running concurrently: two processes, *)
(* each with its own FeedbackManager on the same files.  The SQLite INSERT  *)
(* is one transaction of the engine.  The JSON branch is three steps with   *)
(* no lock between them: _json_load reads the file, open(path, "w")         *)
(* truncates it, json.dump writes the list.  A _json_load that meets the    *)
(* truncated file gets a decode error and returns [].                       *)

\* the message id each process gives feedback on
ProcMessageId(p) == IF p = "p1" THEN "m1" ELSE "m2"

\* the entry found in both stores before the calls
PriorEntry == NewEntry("m0", "Q", "RR", "positive", [sec |-> 1, frac |-> 0])

InitConc ==
    /\ jsonExists = TRUE
    /\ jsonFile = <<PriorEntry>>
    /\ table = <<PriorEntry>>
    /\ mgrs = Backends
    /\ ret = NoCall
    /\ nAdds = 0
    /\ RagInit
    /\ AuxIdle

\* add_feedback(...) is entered: timestamp and entry are built
ConcCall(p, b, feedback, timestamp) ==
    /\ procs[p].pc = "idle"
    /\ procs' = [procs EXCEPT ![p] =
                    [pc |-> "start", backend |-> b,
                     entry |-> NewEntry(ProcMessageId(p), "Q", "RR", feedback, timestamp),
                     existing |-> <<>>, result |-> FALSE]]
    /\ UNCHANGED <<jsonExists, jsonFile, table>>

\* SQLite branch: with self._connect() as conn: conn.execute(INSERT ...)
ConcInsert(p) ==
    /\ procs[p].pc = "start"
    /\ procs[p].backend = "sqlite"
    /\ LET r == add_feedback_sqlite(table, procs[p].entry)
       IN  /\ table' = r.store
           /\ procs' = [procs EXCEPT ![p].pc = "done", ![p].result = r.ok]
    /\ UNCHANGED <<jsonExists, jsonFile>>

\* JSON branch: existing = self._json_load(); existing.append(entry)
ConcJsonLoad(p) ==
    /\ procs[p].pc = "start"
    /\ procs[p].backend = "json"
    /\ procs' = [procs EXCEPT
                    ![p].pc = "save",
                    ![p].existing = add_feedback_json(jsonExists, jsonFile, procs[p].entry).store]
    /\ UNCHANGED <<jsonExists, jsonFile, table>>

\* _json_save: open(self.json_path, "w") creates or truncates the file
ConcJsonOpen(p) ==
    /\ procs[p].pc = "save"
    /\ jsonExists' = TRUE
    /\ jsonFile' = <<>>
    /\ procs' = [procs EXCEPT ![p].pc = "dump"]
    /\ UNCHANGED table

\* _json_save: json.dump(data, f); add_feedback returns True
ConcJsonDump(p) ==
    /\ procs[p].pc = "dump"
    /\ jsonFile' = procs[p].existing
    /\ procs' = [procs EXCEPT ![p].pc = "done", ![p].result = TRUE]
    /\ UNCHANGED <<jsonExists, table>>

\* SQLite branch when the INSERT raises in the storage layer (database
\* locked, disk full): the transaction is rolled back, add_feedback catches
\* the exception and returns False
ConcInsertFail(p) ==
    /\ procs[p].pc = "start"
    /\ procs[p].backend = "sqlite"
    /\ procs' = [procs EXCEPT ![p].pc = "done", ![p].result = FALSE]
    /\ UNCHANGED <<jsonExists, jsonFile, table>>

\* _json_save when open(self.json_path, "w") raises (no permission,
\* read-only file system): the file is as it was, _json_save logs the
\* exception and returns, add_feedback returns True
ConcJsonOpenFail(p) ==
    /\ procs[p].pc = "save"
    /\ procs' = [procs EXCEPT ![p].pc = "done", ![p].result = TRUE]
    /\ UNCHANGED <<jsonExists, jsonFile, table>>

\* _json_save when json.dump raises after the file was truncated (disk
\* full): the file holds no list, _json_save logs the exception and
\* returns, add_feedback returns True
ConcJsonDumpFail(p) ==
    /\ procs[p].pc = "dump"
    /\ procs' = [procs EXCEPT ![p].pc = "done", ![p].result = TRUE]
    /\ UNCHANGED <<jsonExists, jsonFile, table>>

ConcFrame == UNCHANGED <<mgrs, ret, nAdds, ragVars, session, chroma>>

DoConcCall ==
    /\ \E p \in Procs, b \in Backends, fb \in Feedbacks, t \in Datetimes : ConcCall(p, b, fb, t)
    /\ ConcFrame
DoConcInsert ==
    /\ \E p \in Procs : ConcInsert(p)
    /\ ConcFrame
DoConcJsonLoad ==
    /\ \E p \in Procs : ConcJsonLoad(p)
    /\ ConcFrame
DoConcJsonOpen ==
    /\ \E p \in Procs : ConcJsonOpen(p)
    /\ ConcFrame
DoConcJsonDump ==
    /\ \E p \in Procs : ConcJsonDump(p)
    /\ ConcFrame
DoConcInsertFail ==
    /\ \E p \in Procs : ConcInsertFail(p)
    /\ ConcFrame
DoConcJsonOpenFail ==
    /\ \E p \in Procs : ConcJsonOpenFail(p)
    /\ ConcFrame
DoConcJsonDumpFail ==
    /\ \E p \in Procs : ConcJsonDumpFail(p)
    /\ ConcFrame
NextConc ==
    \/ DoConcCall
    \/ DoConcInsert
    \/ DoConcJsonLoad
    \/ DoConcJsonOpen
    \/ DoConcJsonDump
    \/ DoConcInsertFail
    \/ DoConcJsonOpenFail
    \/ DoConcJsonDumpFail

SpecConc == InitConc /\ [][NextConc]_vars

\* C12: two add_feedback calls running concurrently against the same store
\* are both persisted: once both have returned True the store holds both
\* entries and the entry that was there before.
C12_NoLostUpdate ==
    \A b \in Backends :
        (\A p \in Procs : /\ procs[p].pc = "done"
                          /\ procs[p].backend = b
                          /\ procs[p].result = TRUE)
            => LET stored == Store(b)
                   Has(e) == \E k \in 1..Len(stored) : stored[k] = e
               IN  /\ Has(PriorEntry)
                   /\ \A p \in Procs : Has(procs[p].entry)

\* C27: add_feedback returns True only if the new entry is in the persisted
\* store when it returns; a call whose write to storage failed returns False.
C27_TrueOnlyIfPersisted ==
    [][\A p \in Procs :
          (procs[p].pc # "done" /\ procs'[p].pc = "done" /\ procs'[p].result = TRUE)
              => LET stored == IF procs'[p].backend = "sqlite"
                               THEN table'
                               ELSE _json_load(jsonExists', jsonFile')
                 IN  \E k \in 1..Len(stored) : stored[k] = procs'[p].entry]_vars

----------------------------------------------------------------------------
(* Specification of compute_session_feedback, a pure function of the chat   *)
(* session's message list: the list is drawn from the sessions of at most   *)
(* MaxMessages messages and the function is applied to it.  A message's     *)
(* content is the sequence of its characters.                               *)

MaxMessages == 3

\* a content of n characters
ContentOfLength(n) == [i \in 1..n |-> IF i % 3 = 1 THEN "a" ELSE IF i % 3 = 2 THEN "b" ELSE "c"]

ContentLengths == {50, 51}

\* the messages of a session: the user's turns, and the assistant's turns
\* with the feedback given on them (the key is absent until feedback is given)
SessionMessages ==
    { [role |-> "user", content |-> ContentOfLength(2)] }
    \cup { [role |-> "assistant", content |-> ContentOfLength(n)] : n \in ContentLengths }
    \cup { [role |-> "assistant", content |-> ContentOfLength(n), feedback |-> fb] :
              n \in ContentLengths, fb \in ValidFeedback }

SessionLists == UNION { [1..n -> SessionMessages] : n \in 0..MaxMessages }

\* recent_limit arguments; 5 is the default
SessionRecentLimits == {0, 1, 2, 5}

\* the longest preview shown in full
PreviewLength == 50

\* s[start:] of Python for any integer start
PySliceFrom(s, start) ==
    LET n == Len(s)
        first == IF start < 0
                 THEN (IF n + start < 0 THEN 0 ELSE n + start)
                 ELSE (IF start > n THEN n ELSE start)
    IN  SubSeq(s, first + 1, n)

\* preview = msg.get("content", ""); if len(preview) > 50: preview[:50] + "..."
ContentPreview(content) ==
    IF Len(content) > PreviewLength
    THEN SubSeq(content, 1, PreviewLength) \o <<".", ".", ".">>
    ELSE content

CountSession(msgs, fb) ==
    Len(SelectSeq(msgs, LAMBDA m : Get(m, "feedback", None) = fb))

\* compute_session_feedback(messages, recent_limit)
compute_session_feedback(messages, recent_limit) ==
    LET assistant_messages == SelectSeq(messages, LAMBDA m : m.role = "assistant")
        total_responses == Len(assistant_messages)
        positive_feedback == CountSession(assistant_messages, "positive")
        negative_feedback == CountSession(assistant_messages, "negative")
        recent_messages == PySliceFrom(assistant_messages, 0 - recent_limit)
    IN  [total_responses |-> total_responses,
         positive_feedback |-> positive_feedback,
         negative_feedback |-> negative_feedback,
         no_feedback |-> total_responses - positive_feedback - negative_feedback,
         satisfaction_rate |->
             IF positive_feedback + negative_feedback > 0
             THEN RoundTenths(100 * positive_feedback, positive_feedback + negative_feedback)
             ELSE 0,
         recent |-> [i \in 1..Len(recent_messages) |->
                        [feedback |-> Get(recent_messages[i], "feedback", None),
                         content_preview |-> ContentPreview(recent_messages[i].content)]]]

InitSession ==
    /\ FbIdle
    /\ RagInit
    /\ procs = NoProcs
    /\ chroma = ChromaIdle
    /\ session \in SessionLists

ComputeSessionFeedback(recent_limit) ==
    /\ ret' = [op |-> "compute_session_feedback", backend |-> "none",
               recent_limit |-> recent_limit,
               value |-> compute_session_feedback(session, recent_limit)]
    /\ UNCHANGED <<jsonExists, jsonFile, table, mgrs, nAdds, ragVars, auxVars>>

NextSession ==
    \E recent_limit \in SessionRecentLimits : ComputeSessionFeedback(recent_limit)

SpecSession == InitSession /\ [][NextSession]_vars

\* C20: for every recent_limit >= 0, 0 included, the 'recent' list of
\* compute_session_feedback has at most recent_limit previews: those of the
\* last min(recent_limit, number of assistant turns) assistant turns, in
\* conversation order, each the content when it has at most 50 characters
\* and else its first 50 characters followed by "...".
C20_RecentAtMostLimit ==
    ret.op = "compute_session_feedback" =>
        LET recent == ret.value.recent
            assistants == SelectSeq(session, LAMBDA m : m.role = "assistant")
            n == Len(assistants)
            k == IF ret.recent_limit < n THEN ret.recent_limit ELSE n
        IN  /\ Len(recent) <= ret.recent_limit
            /\ Len(recent) = k
            /\ \A i \in 1..k :
                  LET content == assistants[n - k + i].content
                  IN  recent[i].content_preview =
                         IF Len(content) <= 50 THEN content
                         ELSE SubSeq(content, 1, 50) \o <<".", ".", ".">>

----------------------------------------------------------------------------
(* Specification of backend selection: managers are constructed with every *)
(* storage_backend argument under every value of FEEDBACK_BACKEND.         *)

\* storage_backend arguments, a string that names no backend included
AnyStorageBackendArgs == StorageBackendArgs \cup {"postgres"}

DoFmInitWithArgs ==
    /\ \E a \in AnyStorageBackendArgs, env \in EnvValues, now \in NowValues :
          FmInitWithArgs(a, env, now)
    /\ UNCHANGED <<ragVars, auxVars>>

NextBackend == DoFmInitWithArgs

SpecBackend == Init /\ [][NextBackend]_vars

\* C21: the backend of a manager is the storage_backend argument when one
\* is given and the value of FEEDBACK_BACKEND only when the argument is
\* None, and it is 'sqlite' or 'json' for every argument and environment.
C21_ArgumentSelectsBackend ==
    ret.op = "__init__" =>
        /\ ret.backend \in {"sqlite", "json"}
        /\ ret.storage_backend # None => ret.backend = ret.storage_backend
        /\ (ret.storage_backend = None /\ ret.env \in {"sqlite", "json"})
              => ret.backend = ret.env

----------------------------------------------------------------------------
(* Specification of clear_collection running next to other calls on the    *)
(* same collection.  clear_collection is two calls to the database,        *)
(* delete_collection and create_collection; store_vector, retrieve_vector  *)
(* and get_collection_info of other threads or clients run before, between *)
(* and after them.  A call that reaches a deleted collection fails in the  *)
(* storage layer.                                                          *)

\* client.delete_collection that empties the collection in place
delete_collection_in_place(exists, coll, fault) ==
    IF fault = "backend" \/ ~exists
    THEN [raised |-> TRUE, exists |-> exists, coll |-> coll]
    ELSE [raised |-> FALSE, exists |-> TRUE, coll |-> <<>>]

\* client.delete_collection(name): raises when the storage layer fails or
\* when there is no collection of that name; else the collection and its
\* records are gone
delete_collection(exists, coll, fault) ==
    IF fault = "backend" \/ ~exists
    THEN [raised |-> TRUE, exists |-> exists, coll |-> coll]
    ELSE [raised |-> FALSE, exists |-> FALSE, coll |-> <<>>]

\* client.create_collection(name, metadata): raises when the storage layer
\* fails or when a collection of that name exists
create_collection(exists, fault) ==
    IF fault = "backend" \/ exists
    THEN [raised |-> TRUE, exists |-> exists]
    ELSE [raised |-> FALSE, exists |-> TRUE]

\* the fault a call through self.collection meets
HandleFault(fault) == IF ~chroma.exists /\ fault = "none" THEN "missing" ELSE fault

\* get_collection_info(): the info dict, or {"error": ...} when count() raises
get_collection_info(coll, fault) ==
    IF fault = "backend" THEN [error |-> "storage error"]
    ELSE IF fault = "missing" THEN [error |-> "Collection does not exist"]
    ELSE [collection_name |-> "rag_documents",
          document_count |-> Cardinality(DOMAIN coll),
          persist_directory |-> "./chroma_db"]

ClearTexts == {"sky", "fog"}
ClearQueries == {"sky?"}
ClearTopKs == {3}
StorageFaults == {"none", "backend"}

\* clear_collection, line 246: self.client.delete_collection(...)
ClearDelete(fault) ==
    LET r == delete_collection(chroma.exists, collection, fault) IN
    /\ chroma.pc = "idle"
    /\ collection' = r.coll
    /\ IF r.raised
       THEN /\ chroma' = chroma
            /\ ragRet' = [op |-> "clear_collection", kind |-> "return", value |-> FALSE]
       ELSE /\ chroma' = [exists |-> r.exists, pc |-> "recreate"]
            /\ ragRet' = [op |-> "clear_collection", kind |-> "pending"]
    /\ UNCHANGED <<pc, pq, trace, nStores>>

\* clear_collection, lines 247-254: self.collection = create_collection(...)
ClearRecreate(fault) ==
    LET r == create_collection(chroma.exists, fault) IN
    /\ chroma.pc = "recreate"
    /\ chroma' = [exists |-> r.exists, pc |-> "idle"]
    /\ ragRet' = [op |-> "clear_collection", kind |-> "return", value |-> ~r.raised]
    /\ UNCHANGED <<collection, pc, pq, trace, nStores>>

\* ChromaDBClient.retrieve_vector(query_text, top_k) as one call
RetrieveVector(query_text, top_k, fault) ==
    LET r == retrieve_vector(collection, query_text, top_k, fault) IN
    /\ ragRet' = [op |-> "retrieve_vector", fault |-> fault, kind |-> r.kind,
                  value |-> IF r.kind = "return" THEN r.value ELSE <<"raised", r.msg>>]
    /\ UNCHANGED <<collection, pc, pq, trace, nStores>>

\* ChromaDBClient.get_collection_info() as one call
GetCollectionInfo(fault) ==
    /\ ragRet' = [op |-> "get_collection_info", fault |-> fault, kind |-> "return",
                  value |-> get_collection_info(collection, fault)]
    /\ UNCHANGED <<collection, pc, pq, trace, nStores>>

DoClearDelete ==
    /\ \E fault \in StorageFaults : ClearDelete(fault)
    /\ UNCHANGED <<fbVars, procs, session>>
DoClearRecreate ==
    /\ \E fault \in StorageFaults : ClearRecreate(fault)
    /\ UNCHANGED <<fbVars, procs, session>>
DoClearStoreVector ==
    /\ \E text \in ClearTexts, metadata \in MetadataArgs, fault \in Faults :
          StoreVector(text, metadata, HandleFault(fault))
    /\ UNCHANGED <<fbVars, auxVars>>
DoClearRetrieveVector ==
    /\ \E q \in ClearQueries, top_k \in ClearTopKs, fault \in Faults :
          RetrieveVector(q, top_k, HandleFault(fault))
    /\ UNCHANGED <<fbVars, auxVars>>
DoClearGetCollectionInfo ==
    /\ \E fault \in StorageFaults : GetCollectionInfo(HandleFault(fault))
    /\ UNCHANGED <<fbVars, auxVars>>

NextClear ==
    \/ DoClearDelete
    \/ DoClearRecreate
    \/ DoClearStoreVector
    \/ DoClearRetrieveVector
    \/ DoClearGetCollectionInfo

SpecClear == InitRAG /\ [][NextClear]_vars

\* the step is a store_vector, retrieve_vector or get_collection_info call
ClientCallStep ==
    /\ chroma' = chroma
    /\ ragRet'.op \in {"store_vector", "retrieve_vector", "get_collection_info"}

\* a store_vector, retrieve_vector or get_collection_info call failed
CallFailed(r) ==
    \/ r.kind = "raise"
    \/ r.op = "get_collection_info" /\ "error" \in DOMAIN r.value

C29_UsableAfterFailedClear ==
    (ragRet.op = "clear_collection" /\ ragRet.kind = "return" /\ ragRet.value = FALSE)
        => chroma.exists

----------------------------------------------------------------------------
(* Specification of two FeedbackManager constructions on the relational    *)
(* backend running concurrently (the chat page and the feedback page each  *)
(* construct a manager on every run).  Each statement of __init__ that     *)
(* opens its own connection is a step: _ensure_database, _table_is_empty,  *)
(* the read of the legacy file, and the executemany transaction.           *)

\* _ensure_database(): CREATE TABLE IF NOT EXISTS keeps the rows
MigEnsure(p) ==
    /\ procs[p].pc = "idle"
    /\ procs' = [procs EXCEPT ![p].pc = "check", ![p].backend = "sqlite"]
    /\ UNCHANGED <<jsonExists, jsonFile, table, mgrs>>

\* _maybe_migrate_from_json, lines 105-108: the two early returns
MigCheck(p) ==
    /\ procs[p].pc = "check"
    /\ procs' = [procs EXCEPT ![p].pc =
                    IF jsonExists /\ _table_is_empty(table) THEN "load" ELSE "done"]
    /\ mgrs' = IF jsonExists /\ _table_is_empty(table) THEN mgrs ELSE mgrs \cup {"sqlite"}
    /\ UNCHANGED <<jsonExists, jsonFile, table>>

\* lines 110-113: data = json.load(f); return when it is not a non-empty list
MigLoad(p) ==
    /\ procs[p].pc = "load"
    /\ LET data == _json_load(jsonExists, jsonFile)
       IN  /\ procs' = [procs EXCEPT ![p].pc = IF data = <<>> THEN "done" ELSE "insert",
                                     ![p].existing = data]
           /\ mgrs' = IF data = <<>> THEN mgrs \cup {"sqlite"} ELSE mgrs
    /\ UNCHANGED <<jsonExists, jsonFile, table>>

\* lines 115-133: the executemany transaction over the entries read
MigInsert(p, now) ==
    /\ procs[p].pc = "insert"
    /\ LET rows == [i \in 1..Len(procs[p].existing) |-> MigrateRow(procs[p].existing[i], now)]
           committed == \A i \in 1..Len(rows) : CheckConstraint(rows[i].feedback)
       IN  /\ table' = IF committed THEN table \o rows ELSE table
           /\ procs' = [procs EXCEPT ![p].pc = "done", ![p].result = committed]
    /\ mgrs' = mgrs \cup {"sqlite"}
    /\ UNCHANGED <<jsonExists, jsonFile>>

\* an entry the flat-file backend wrote with a value the table's CHECK rejects
LegacyNeutral ==
    [message_id |-> "m1", timestamp |-> <<3, 0>>, user_query |-> "Q",
     response |-> "RR", feedback |-> "neutral",
     response_length |-> 2, query_length |-> 1]

\* the legacy files the two constructions find
MigLegacyFiles ==
    LegacyFiles
    \cup { [exists |-> TRUE, file |-> <<LegacyNoLengths, LegacyWithLengths>>],
           [exists |-> TRUE, file |-> <<LegacyNoLengths, LegacyNeutral>>] }

\* a new database next to the legacy file
InitMig ==
    /\ \E f \in MigLegacyFiles : jsonExists = f.exists /\ jsonFile = f.file
    /\ table = <<>>
    /\ mgrs = {}
    /\ ret = NoCall
    /\ nAdds = 0
    /\ RagInit
    /\ AuxIdle

MigFrame == UNCHANGED <<ret, nAdds, ragVars, session, chroma>>

DoMigEnsure ==
    /\ \E p \in Procs : MigEnsure(p)
    /\ MigFrame
DoMigCheck ==
    /\ \E p \in Procs : MigCheck(p)
    /\ MigFrame
DoMigLoad ==
    /\ \E p \in Procs : MigLoad(p)
    /\ MigFrame
DoMigInsert ==
    /\ \E p \in Procs, now \in NowValues : MigInsert(p, now)
    /\ MigFrame

NextMig ==
    \/ DoMigEnsure
    \/ DoMigCheck
    \/ DoMigLoad
    \/ DoMigInsert

SpecMig == InitMig /\ [][NextMig]_vars

\* C25: when two initializations of the relational backend run concurrently
\* on the same empty database and the same legacy file of K entries, the
\* table ends with exactly K migrated rows, never 2K.
C25_ConcurrentMigrationOnce ==
    (\A p \in Procs : procs[p].pc = "done")
        => LET data == _json_load(jsonExists, jsonFile)
            IN  Len(table) = IF \A i \in 1..Len(data) : CheckConstraint(data[i].feedback)
                             THEN Len(data)
                             ELSE 0

----------------------------------------------------------------------------
(* Specification of _prepare_context, a pure function of the list of       *)
(* results it is given: the list is drawn from the lists of at most        *)
(* MaxDocs results and the function is applied to it.                      *)

MaxDocs == 3

\* similarities of the results, in hundredths: below, at and above the threshold
ContextSimilarities == {20, 30, 80}

ContextDocuments == {"sky", "fog"}

\* the dicts retrieve_vector builds, with the keys _prepare_context reads
ContextResults ==
    { [document |-> d, similarity |-> s, distance |-> 100 - s] :
          d \in ContextDocuments, s \in ContextSimilarities }

ContextLists == UNION { [1..n -> ContextResults] : n \in 0..MaxDocs }

\* _prepare_context that numbers the results it includes 1, 2, ...
PrepareContext_renumbered(relevant_docs) ==
    LET c == _prepare_context(relevant_docs)
    IN  /\ ragRet' = [op |-> "_prepare_context", relevant_docs |-> relevant_docs,
                      value |-> IF c.kind = "sources"
                                THEN [kind |-> "sources",
                                      parts |-> [j \in 1..Len(c.parts) |->
                                                    [c.parts[j] EXCEPT !.source = j]]]
                                ELSE c]
        /\ UNCHANGED <<collection, pc, pq, trace, nStores>>

\* RAGChatbot._prepare_context(relevant_docs) as one call
PrepareContext(relevant_docs) ==
    /\ ragRet' = [op |-> "_prepare_context", relevant_docs |-> relevant_docs,
                  value |-> _prepare_context(relevant_docs)]
    /\ UNCHANGED <<collection, pc, pq, trace, nStores>>

DoPrepareContext ==
    /\ \E relevant_docs \in ContextLists : PrepareContext(relevant_docs)
    /\ UNCHANGED <<fbVars, auxVars>>

NextContext == DoPrepareContext

SpecContext == InitRAG /\ [][NextContext]_vars

\* the positions of the results of docs that pass the threshold
IncludedPositions(docs) ==
    {i \in 1..Len(docs) : docs[i].similarity > 30}

====
